---------------------------- MODULE Spec2Model ----------------------------
(***************************************************************************)
(* Model of the incremental token-tracking and layer-cache engine of       *)
(* packages/plugin-utils/src/createUtils.ts (createUtils) as it is driven  *)
(* by packages/vite-plugin-windicss/src/index.ts.                          *)
(*                                                                         *)
(* The closure state of one createUtils() instance is the set of           *)
(* VARIABLES below.  Every function of the closure is an operator over a   *)
(* state record (so that a function calling another, as generateCSS calls  *)
(* buildPendingStyles and buildLayerCss, is the composition of their       *)
(* operators), and every exported operation is one action that commits the *)
(* record its operator returns.                                            *)
(***************************************************************************)
EXTENDS Integers, Sequences, FiniteSets, TLC

(***************************************************************************)
(* Bounds of the model.                                                    *)
(***************************************************************************)
\* _init() invocations ever started (explicit init() calls and the one
\* ensureInit() may start).
MaxInits == 2
\* Style nodes one source key may hold in the contribution store.
MaxStyles == 2
\* Values Date.now() takes (the clock stops advancing at the last one).
MaxClock == 2
\* Callers of ensureInit() whose returned promise is tracked.
MaxCallers == 2

(***************************************************************************)
(* Universes the inputs are drawn from.                                    *)
(***************************************************************************)
\* Class tokens an extractor may report ("" is the empty token).
ClassTokens == {"p-4", "btn"}
ClassInputs == ClassTokens \cup {""}

\* constants.ts (not among the source files): the html tag universe and the
\* tags whose preflight is always generated.
htmlTags == {"html", "a"}
preflightTags == {"html"}

\* Tags an extractor may report: known tags, a component name that the alias
\* table resolves, and an unknown tag.
TagInputs == {"html", "a", "RouterLink", "x-foo"}

\* The value of a missing property / absent Map entry.
undefined == "undefined"

\* LayerName, SupportedLayers
SupportedLayers == {"base", "utilities", "components"}

\* Source keys of the contribution store.
GeneratedClasses == "__classes"
GeneratedPreflights == "__preflights"

(***************************************************************************)
(* Style nodes.  A node is opaque but for meta.type, its layer; id names   *)
(* what it was compiled from and order is the rank StyleSheet.sort() uses. *)
(***************************************************************************)
Style(type, id, order) == [type |-> type, id |-> id, order |-> order]

\* processor.interpret: the node a class token compiles to.
StyleOfClass(c) ==
    IF c = "p-4" THEN Style("utilities", c, 5) ELSE Style("components", c, 3)

\* processor.preflight: the node of a tag's reset rules.
StyleOfTag(t) ==
    IF t = "html" THEN Style("base", t, 1) ELSE Style("base", t, 2)

\* Layer blocks a CSS file may hold (@layer base / components / utilities).
BlockBase == Style("base", "blk-base", 4)
BlockComponents == Style("components", "blk-comp", 6)
BlockUtilities == Style("utilities", "blk-util", 7)

StyleBefore(a, b) == a.order < b.order

\* The sequence of the elements of a set of styles, in rank order.
RECURSIVE StylesInOrder(_)
StylesInOrder(set) ==
    IF set = {} THEN <<>>
    ELSE LET first == CHOOSE s \in set : \A o \in set : s.order <= o.order
         IN  <<first>> \o StylesInOrder(set \ {first})

(***************************************************************************)
(* Resolved options (resolveOptions.ts is not among the source files; the  *)
(* configuration a resolution yields is an input).                         *)
(***************************************************************************)
ConfigA ==
    [ name |-> "A",
      blocklist |-> {}, safelist |-> {},
      enablePreflight |-> TRUE,
      preflightOptions |-> [ includeAll |-> FALSE, blocklist |-> {},
                             safelist |-> {}, alias |-> "router-link" :> "a" ],
      sortUtilities |-> TRUE, prefixer |-> TRUE, transformCSS |-> TRUE,
      enableScan |-> TRUE, scanOptions |-> [ runOnStartup |-> TRUE ] ]

ConfigB ==
    [ name |-> "B",
      blocklist |-> {"btn"}, safelist |-> {"p-4"},
      enablePreflight |-> FALSE,
      preflightOptions |-> [ includeAll |-> FALSE, blocklist |-> {"a"},
                             safelist |-> {}, alias |-> "router-link" :> "a" ],
      sortUtilities |-> FALSE, prefixer |-> FALSE, transformCSS |-> TRUE,
      enableScan |-> FALSE, scanOptions |-> [ runOnStartup |-> TRUE ] ]

Configs == {ConfigA, ConfigB}

\* let options = {} as ResolvedOptions
NoOptions ==
    [ name |-> "",
      blocklist |-> {}, safelist |-> {},
      enablePreflight |-> FALSE,
      preflightOptions |-> [ includeAll |-> FALSE, blocklist |-> {},
                             safelist |-> {}, alias |-> <<>> ],
      sortUtilities |-> FALSE, prefixer |-> FALSE, transformCSS |-> FALSE,
      enableScan |-> FALSE, scanOptions |-> [ runOnStartup |-> FALSE ] ]

VARIABLES
    options,          \* let options
    processor,        \* let processor: 0 (undefined) or the instance's id
    classesGenerated, classesPending,
    tagsGenerated, tagsPending, tagsAvailable,
    layers,           \* layers: LayerName -> LayerMeta
    layerStylesMap,   \* Map<string, Style[]>, in insertion order
    promise_init,     \* _promise_init: 0 (undefined) or the _init run's id
    inits,            \* the _init() runs, by id: status and what started it
    ensured,          \* per caller: what its last ensureInit() returned
    now,              \* Date.now()
    ret,              \* the last operation and the value it returned
    rebuilt,          \* per layer: recomputations since it was last invalidated
    files,            \* let files: the paths the scan has found
    searching,        \* _searching: null, or the phase the scan body is in
    scanned,          \* let scanned
    scanRuns,         \* how many times the scan body has been started
    calls,            \* per caller: the generateCSS()/scan() call it is in
    accepted          \* class tokens addClasses inserted since the last full reset

vars == << options, processor, classesGenerated, classesPending,
           tagsGenerated, tagsPending, tagsAvailable, layers, layerStylesMap,
           promise_init, inits, ensured, now, ret, rebuilt,
           files, searching, scanned, scanRuns, calls, accepted >>


(***************************************************************************)
(* The closure state as one record, and its commit.                        *)
(***************************************************************************)
S ==
    [ options |-> options, processor |-> processor,
      classesGenerated |-> classesGenerated, classesPending |-> classesPending,
      tagsGenerated |-> tagsGenerated, tagsPending |-> tagsPending,
      tagsAvailable |-> tagsAvailable,
      layers |-> layers, layerStylesMap |-> layerStylesMap,
      now |-> now, rebuilt |-> rebuilt, files |-> files ]

Commit(st) ==
    /\ options' = st.options
    /\ processor' = st.processor
    /\ classesGenerated' = st.classesGenerated
    /\ classesPending' = st.classesPending
    /\ tagsGenerated' = st.tagsGenerated
    /\ tagsPending' = st.tagsPending
    /\ tagsAvailable' = st.tagsAvailable
    /\ layers' = st.layers
    /\ layerStylesMap' = st.layerStylesMap
    /\ rebuilt' = st.rebuilt
    /\ now' = st.now
    /\ files' = st.files

(***************************************************************************)
(* utils.ts (not among the source files): the set helpers and kebabCase.   *)
(***************************************************************************)
\* include(set, v): add every element of v to set
include(set, v) == set \cup v

\* exclude(set, v): delete every element of v from set
exclude(set, v) == set \ v

\* kebabCase(tag): "RouterLink" -> "router-link"
kebabCase(tag) == IF tag = "RouterLink" THEN "router-link" ELSE tag

\* alias[key], undefined when the table has no such key
AliasOf(alias, key) == IF key \in DOMAIN alias THEN alias[key] ELSE undefined

(***************************************************************************)
(* Token Registry.                                                         *)
(***************************************************************************)
\* The mutant of the skip test of addClasses: tokens already Generated are
\* queued again.
SkipClass_NoGeneratedCheck(st, i) ==
    \/ i = ""
    \/ i \in st.classesPending
    \/ i \in st.options.blocklist

\* The mutant of the skip test of addClasses: tokens already Pending count as
\* inserted again.
SkipClass_NoPendingCheck(st, i) ==
    \/ i = ""
    \/ i \in st.classesGenerated
    \/ i \in st.options.blocklist

\* if (!i || classesGenerated.has(i) || classesPending.has(i) || options.blocklist.has(i)) return
SkipClass(st, i) ==
    \/ i = ""
    \/ i \in st.classesGenerated
    \/ i \in st.classesPending
    \/ i \in st.options.blocklist

\* classes.forEach(...) from index k on; changed is the flag the loop sets.
RECURSIVE addClassesFrom(_, _, _)
addClassesFrom(st, classes, k) ==
    IF k > Len(classes) THEN [st |-> st, changed |-> FALSE]
    ELSE LET i == classes[k]
             skip == SkipClass(st, i)
             st1 == IF skip THEN st
                    ELSE [st EXCEPT !.classesPending = @ \cup {i}]
             rest == addClassesFrom(st1, classes, k + 1)
         IN  [st |-> rest.st, changed |-> (~skip) \/ rest.changed]

addClasses(st, classes) == addClassesFrom(st, classes, 1)

\* tags.forEach(...) from index k on.
RECURSIVE addTagsFrom(_, _, _)
addTagsFrom(st, tags, k) ==
    IF k > Len(tags) THEN [st |-> st, changed |-> FALSE]
    ELSE LET tag == IF tags[k] \in st.tagsAvailable THEN tags[k]
                    ELSE AliasOf(st.options.preflightOptions.alias,
                                 kebabCase(tags[k]))
             move == /\ tag \notin st.options.preflightOptions.blocklist
                     /\ tag \in st.tagsAvailable
                     /\ tag \notin st.tagsPending
             st1 == IF move
                    THEN [st EXCEPT !.tagsPending = @ \cup {tag},
                                    !.tagsAvailable = @ \ {tag}]
                    ELSE st
             rest == addTagsFrom(st1, tags, k + 1)
         IN  [st |-> rest.st, changed |-> move \/ rest.changed]

addTags(st, tags) == addTagsFrom(st, tags, 1)

(***************************************************************************)
(* Extraction Pipeline.  The group transform, the transformers and the     *)
(* extractors are external: what applyExtractors reports for a source is   *)
(* the input.                                                              *)
(***************************************************************************)
Extracted(classes, tags) == [classes |-> classes, tags |-> tags]

\* The extraction results of the sources a project may hold.
Codes ==
    { Extracted(<<>>, <<>>),
      Extracted(<<"p-4">>, <<"a">>),
      Extracted(<<"btn", "p-4">>, <<"RouterLink">>),
      Extracted(<<"btn", "">>, <<"html", "x-foo">>) }

\* lines 193-209
extractFile(st, code) ==
    LET r1 == addClasses(st, code.classes)
    IN  IF st.options.enablePreflight
           \/ ~st.options.preflightOptions.includeAll
        THEN LET r2 == addTags(r1.st, code.tags)
             IN  [st |-> r2.st, changed |-> r2.changed \/ r1.changed]
        ELSE r1

(***************************************************************************)
(* Layer Store.                                                            *)
(***************************************************************************)
\* LayerMeta: cssCache is <<>> (undefined) or <<text>>, timestamp is 0
\* (undefined) or a clock value.
EmptyLayerMeta == [cssCache |-> <<>>, timestamp |-> 0]

\* const layers = { base: {}, utilities: {}, components: {} }
EmptyLayers == [name \in SupportedLayers |-> EmptyLayerMeta]

NoRebuilds == [name \in SupportedLayers |-> 0]

\* Map.has / Map.get (absent read as [], as `?.forEach` and `|| []` do) /
\* Map.set, which keeps the place of a key already present / Map.values
MapHas(map, key) == \E i \in 1..Len(map) : map[i].key = key

MapGet(map, key) ==
    IF MapHas(map, key)
    THEN map[CHOOSE i \in 1..Len(map) : map[i].key = key].styles
    ELSE <<>>

MapSet(map, key, styles) ==
    IF MapHas(map, key)
    THEN [i \in 1..Len(map) |->
             IF map[i].key = key THEN [key |-> key, styles |-> styles]
             ELSE map[i]]
    ELSE Append(map, [key |-> key, styles |-> styles])

\* Array.from(layerStylesMap.values()).flatMap(i => i)
RECURSIVE FlatValues(_)
FlatValues(map) ==
    IF map = <<>> THEN <<>> ELSE Head(map).styles \o FlatValues(Tail(map))

\* the meta.type of every node of a list
TypesOf(styles) == {styles[i].type : i \in 1..Len(styles)}

\* The mutant of updateLayers' invalidation set: a replace forgets the layers
\* of the contribution it removes.
ChangedLayers_NewOnly(st, styles, filepath, replace) == TypesOf(styles)

\* The mutant of updateLayers' invalidation set: every layer is invalidated.
ChangedLayers_AllLayers(st, styles, filepath, replace) == SupportedLayers

\* changedLayers, lines 241-245
ChangedLayers(st, styles, filepath, replace) ==
    TypesOf(styles) \cup
        (IF replace THEN TypesOf(MapGet(st.layerStylesMap, filepath)) ELSE {})

\* The mutant of updateLayers' store step: replace mode appends too.
StoredStyles_AlwaysAppend(st, styles, filepath, replace) ==
    MapGet(st.layerStylesMap, filepath) \o styles

\* The mutant of updateLayers' store step: append mode overwrites too.
StoredStyles_AlwaysReplace(st, styles, filepath, replace) == styles

\* the contribution stored under filepath, lines 244-251
StoredStyles(st, styles, filepath, replace) ==
    IF replace THEN styles
    ELSE MapGet(st.layerStylesMap, filepath) \o styles

updateLayers(st, styles, filepath, replace) ==
    LET timestamp == st.now
        changedLayers == ChangedLayers(st, styles, filepath, replace)
        stored == StoredStyles(st, styles, filepath, replace)
    IN  [st EXCEPT
            !.layerStylesMap = MapSet(@, filepath, stored),
            !.layers = [name \in SupportedLayers |->
                           IF name \in changedLayers
                           THEN [cssCache |-> <<>>, timestamp |-> timestamp]
                           ELSE @[name]],
            !.rebuilt = [name \in SupportedLayers |->
                           IF name \in changedLayers THEN 0 ELSE @[name]]]

\* The mutant of buildLayerCss' filter: every node is kept.
LayerStyles_NoFilter(st, name) == FlatValues(st.layerStylesMap)

\* ...flatMap(i => i).filter(i => i.meta.type === name)
LayerStyles(st, name) ==
    SelectSeq(FlatValues(st.layerStylesMap), LAMBDA s : s.type = name)

\* `/* windicss layer ${name} */\n${style.build()}` of a fresh StyleSheet
BuildCss(st, name) ==
    LET children == LayerStyles(st, name)
    IN  [ banner |-> name,
          prefixer |-> st.options.prefixer,
          rules |-> IF st.options.sortUtilities
                    THEN SortSeq(children, StyleBefore)
                    ELSE children ]

\* The mutant of buildLayerCss' memo test: the cache is never used.
NeedsBuild_Always(st, name) == TRUE

\* layer.cssCache == null
NeedsBuild(st, name) == st.layers[name].cssCache = <<>>

buildLayerCss(st, name) ==
    IF NeedsBuild(st, name)
    THEN [st EXCEPT !.layers[name].cssCache = <<BuildCss(st, name)>>,
                    !.rebuilt[name] = @ + 1]
    ELSE st

(***************************************************************************)
(* Compiler Bridge.  The style compiler is external: which of the joined   *)
(* tokens it reports in result.success is an input of the action.          *)
(***************************************************************************)
\* processor.interpret(Array.from(classesPending).join(' ')), given the
\* tokens it reports as succeeded
Interpret(success) ==
    [ success |-> success,
      styleSheet |-> StylesInOrder({StyleOfClass(c) : c \in success}) ]

\* processor.preflight(html, ...): html undefined stands for every tag
Preflight(includeAll, tags) ==
    StylesInOrder({StyleOfTag(t) : t \in IF includeAll THEN htmlTags ELSE tags})

\* The mutant of the class step's bookkeeping: every pending token is
\* recorded as Generated, whatever the compiler reported.
CompiledClasses_AllPending(st, result) == st.classesPending

\* include(classesGenerated, result.success): the tokens added to Generated
CompiledClasses(st, result) == result.success

\* lines 281-290
buildPendingClasses(st, result) ==
    IF st.classesPending # {} /\ result.success # {}
    THEN LET st1 == updateLayers(st, result.styleSheet, GeneratedClasses, FALSE)
         IN  [st1 EXCEPT
                 !.classesGenerated = include(@, CompiledClasses(st, result)),
                 !.classesPending = {}]
    ELSE st

\* lines 292-306
buildPendingTags(st) ==
    LET includeAll == st.options.preflightOptions.includeAll IN
    IF st.options.enablePreflight /\ (includeAll \/ st.tagsPending # {})
    THEN LET preflightStyle == Preflight(includeAll, st.tagsPending)
             st1 == updateLayers(st, preflightStyle, GeneratedPreflights, FALSE)
         IN  [st1 EXCEPT
                 !.tagsGenerated = include(@, st.tagsPending),
                 !.tagsPending = {}]
    ELSE st

buildPendingStyles(st, result) ==
    buildPendingTags(buildPendingClasses(st, result))

\* The mutant of generateCSS' order: the layers are read before the pending
\* styles are built.
generateCSS_ReadsFirst(st, layer, result) ==
    LET st1 == IF layer # undefined
               THEN buildLayerCss(st, layer)
               ELSE buildLayerCss(
                        buildLayerCss(
                            buildLayerCss(st, "base"), "components"),
                        "utilities")
    IN  buildPendingStyles(st1, result)

\* buildPendingStyles() and the reads of generateCSS, lines 320-328
generateCSS(st, layer, result) ==
    LET st1 == buildPendingStyles(st, result)
    IN  IF layer # undefined
        THEN buildLayerCss(st1, layer)
        ELSE buildLayerCss(
                 buildLayerCss(
                     buildLayerCss(st1, "base"), "components"), "utilities")

\* The mutant of clearCache's re-queue: the Generated class tokens are
\* dropped instead of queued again.
RequeuedClasses_None(st) == {}

\* include(classesPending, classesGenerated), line 343
RequeuedClasses(st) == st.classesGenerated

\* The mutant of clearCache's reset of the layers: the utilities layer keeps
\* its cache.
ClearedLayers_KeepUtilities(st) ==
    [EmptyLayers EXCEPT !["utilities"] = st.layers["utilities"]]

\* layers.base = {}; layers.utilities = {}; layers.components = {}
ClearedLayers(st) == EmptyLayers

clearCache(st, clearAll) ==
    LET st1 == [st EXCEPT
                   !.layers = ClearedLayers(st),
                   !.rebuilt = [name \in SupportedLayers |->
                                   IF ClearedLayers(st)[name].cssCache = <<>>
                                   THEN 0 ELSE @[name]]]
        st2 == IF clearAll
               THEN [st1 EXCEPT !.classesPending = {},
                                !.tagsPending = {},
                                !.tagsAvailable = {}]
               ELSE [st1 EXCEPT
                        !.classesPending = include(@, RequeuedClasses(st1)),
                        !.tagsPending =
                            include(include(@, st1.tagsGenerated),
                                    preflightTags),
                        !.tagsAvailable = include(@, htmlTags)]
        safe == st.options.preflightOptions.safelist
    IN  [st2 EXCEPT
            !.classesPending = include(@, st.options.safelist),
            !.tagsPending = include(@, safe),
            !.tagsAvailable = exclude(exclude(@, preflightTags), safe),
            !.classesGenerated = {},
            !.tagsGenerated = {}]

(***************************************************************************)
(* CSS transformation.  A parsed file is the list of its children; a child *)
(* is a layer block (meta.group = "layer-block") or something else.        *)
(***************************************************************************)
Child(group, style) == [group |-> group, style |-> style]

PlainRule == Child("rule", Style("", "rule", 0))

\* The parsed forms of the CSS texts a file may hold.
CssInputs ==
    { <<PlainRule>>,
      <<Child("layer-block", BlockUtilities)>>,
      <<Child("layer-block", BlockBase), PlainRule>>,
      <<Child("layer-block", BlockComponents),
        Child("layer-block", BlockUtilities)>> }

\* The style sources of a project and the texts each may hold.
StyleSources ==
    ({"a.css"} \X CssInputs)
        \cup ({"b.css"} \X {<<PlainRule>>,
                            <<Child("layer-block", BlockBase), PlainRule>>})

\* partition(style.children, i => i.meta.group === 'layer-block' && ...)[0]
LayerBlocks(css) ==
    LET kept == SelectSeq(css, LAMBDA c : /\ c.group = "layer-block"
                                          /\ c.style.type \in SupportedLayers)
    IN  [k \in 1..Len(kept) |-> kept[k].style]

transformCSS(st, css, id) ==
    IF ~st.options.transformCSS THEN st
    ELSE LET layerBlocks == LayerBlocks(css)
         IN  IF layerBlocks # <<>>
             THEN updateLayers(st, layerBlocks, id, TRUE)
             ELSE st

(***************************************************************************)
(* Initialization Coordinator.                                             *)
(***************************************************************************)
\* _init() from the point resolveOptions has resolved with cfg, lines 418-426;
\* the Processor constructed by run id is instance id.
NoFiles(id) == [id |-> id, paths |-> <<>>]

\* The mutant of _init's publication: a run that a later init() superseded
\* does not publish its instance.
PublishedProcessor_LatestOnly(st, id) ==
    IF id = promise_init THEN id ELSE st.processor

\* processor = new Processor(options.config), line 421
PublishedProcessor(st, id) == id

\* options = await resolveOptions(...); files = [], lines 418-419; the array
\* created by run id is array id.
initConfigured(st, cfg, id) ==
    [st EXCEPT !.options = cfg, !.files = NoFiles(id)]

initResolved(st, cfg, id) ==
    LET st1 == initConfigured(st, cfg, id)
    IN  clearCache([st1 EXCEPT !.processor = PublishedProcessor(st1, id)],
                   FALSE)

\* The steps of _init() that can throw: resolveOptions (line 418), the
\* Processor constructor (line 421), the onInitialized hook (line 424).
InitSteps == {"resolveOptions", "Processor", "onInitialized"}

\* _init() of run id up to the step that throws.
initFailed(st, cfg, id, step) ==
    CASE step = "resolveOptions" -> st
      [] step = "Processor" -> initConfigured(st, cfg, id)
      [] step = "onInitialized" -> initResolved(st, cfg, id)

(***************************************************************************)
(* Inputs of the actions.                                                  *)
(***************************************************************************)
\* Tokens one extraction reports at most.
MaxTokens == 2

SeqsUpTo(set, n) == UNION {[1..k -> set] : k \in 0..n}

ClassLists == SeqsUpTo(ClassInputs, MaxTokens)
TagLists == SeqsUpTo(TagInputs, MaxTokens)

Callers == 1..MaxCallers

\* What ensureInit() returned to a caller: nothing yet, the processor itself,
\* or the promise of an _init run.
NotCalled == [kind |-> "none", ref |-> 0]

NoRet == [op |-> "", args |-> <<>>, changed |-> FALSE]

\* The bound on the contribution store.
WithinBounds(st) ==
    \A i \in 1..Len(st.layerStylesMap) :
        Len(st.layerStylesMap[i].styles) <= MaxStyles

initVars == << promise_init, inits, ensured >>

\* The call a caller is in: none, or generateCSS(layer), scan() or the
\* plugin's transform(code, id) suspended at the await pc names; arg is the
\* layer, or the id and the parsed code.
NoCall == [op |-> "none", pc |-> "idle", arg |-> undefined]

scanVars == << searching, scanned, scanRuns, calls >>

\* _searching = null; arr is the files array files.push was evaluated on.
NotSearching == [phase |-> "none", arr |-> 0]

\* What getFiles() finds, sorted.
Found == << "a.css", "a.html" >>

\* The promise ensureInit() returned to caller c has resolved / rejected.
Resolved(c) ==
    \/ ensured[c].kind = "value"
    \/ /\ ensured[c].kind = "promise"
       /\ inits[ensured[c].ref].status = "done"

Rejected(c) ==
    /\ ensured[c].kind = "promise"
    /\ inits[ensured[c].ref].status = "rejected"

Init ==
    /\ options = NoOptions
    /\ processor = 0
    /\ classesGenerated = {}
    /\ classesPending = {}
    /\ tagsGenerated = {}
    /\ tagsPending = {}
    /\ tagsAvailable = {}
    /\ layers = EmptyLayers
    /\ layerStylesMap = <<>>
    /\ promise_init = 0
    /\ inits = <<>>
    /\ ensured = [c \in Callers |-> NotCalled]
    /\ now = 1
    /\ ret = NoRet
    /\ rebuilt = NoRebuilds
    /\ files = NoFiles(0)
    /\ searching = NotSearching
    /\ scanned = FALSE
    /\ scanRuns = 0
    /\ calls = [c \in Callers |-> NoCall]
    /\ accepted = {}

(***************************************************************************)
(* Actions.                                                                *)
(***************************************************************************)
\* init(): _promise_init = _init(); the run suspends at resolveOptions.
InitCall ==
    /\ Len(inits) < MaxInits
    /\ inits' = Append(inits, [status |-> "resolving", by |-> "init"])
    /\ promise_init' = Len(inits) + 1
    /\ ret' = NoRet
    /\ Commit(S)
    /\ UNCHANGED << ensured, scanVars, accepted >>

\* The mutant of ensureInit's single-flight test: an in-flight initialization
\* is not reused.
StartsInit_IgnorePromise == processor = 0

\* ensureInit() starts _init(): !processor && !_promise_init
StartsInit == processor = 0 /\ promise_init = 0

\* The body of ensureInit() called by caller c, lines 438-442.
ensureInit(c) ==
       IF processor # 0
       THEN /\ ensured' = [ensured EXCEPT ![c] =
                   [kind |-> "value", ref |-> processor]]
            /\ UNCHANGED << promise_init, inits >>
       ELSE IF StartsInit
       THEN /\ Len(inits) < MaxInits
            /\ inits' = Append(inits, [status |-> "resolving",
                                       by |-> "ensureInit"])
            /\ promise_init' = Len(inits) + 1
            /\ ensured' = [ensured EXCEPT ![c] =
                   [kind |-> "promise", ref |-> Len(inits) + 1]]
       ELSE /\ ensured' = [ensured EXCEPT ![c] =
                   [kind |-> "promise", ref |-> promise_init]]
            /\ UNCHANGED << promise_init, inits >>

\* ensureInit() called by caller c.
EnsureInit(c) ==
    /\ ensureInit(c)
    /\ ret' = NoRet
    /\ Commit(S)
    /\ UNCHANGED << scanVars, accepted >>

\* resolveOptions of run i resolves with cfg and _init runs to its end.
InitResolve(i, cfg) ==
    /\ i \in 1..Len(inits)
    /\ inits[i].status = "resolving"
    /\ inits' = [inits EXCEPT ![i].status = "done"]
    /\ Commit(initResolved(S, cfg, i))
    /\ ret' = NoRet
    /\ UNCHANGED << promise_init, ensured, scanVars, accepted >>

\* Run i throws at step: its promise rejects.
InitFail(i, cfg, step) ==
    /\ i \in 1..Len(inits)
    /\ inits[i].status = "resolving"
    /\ inits' = [inits EXCEPT ![i].status = "rejected"]
    /\ Commit(initFailed(S, cfg, i, step))
    /\ ret' = NoRet
    /\ UNCHANGED << promise_init, ensured, scanVars, accepted >>

AddClasses(classes) ==
    /\ processor # 0
    /\ LET r == addClasses(S, classes)
       IN  /\ Commit(r.st)
           /\ ret' = [op |-> "addClasses", args |-> classes,
                      changed |-> r.changed]
           /\ accepted' = accepted \cup (r.st.classesPending \ classesPending)
    /\ UNCHANGED << initVars, scanVars >>

AddTags(tags) ==
    /\ processor # 0
    /\ LET r == addTags(S, tags)
       IN  /\ Commit(r.st)
           /\ ret' = [op |-> "addTags", args |-> <<>>, changed |-> r.changed]
    /\ UNCHANGED << initVars, scanVars, accepted >>

\* extractFile(code, id) from the point applyExtractors has resolved.
ExtractFile(code) ==
    /\ processor # 0
    /\ LET r == extractFile(S, code)
       IN  /\ Commit(r.st)
           /\ ret' = [op |-> "extractFile", args |-> <<>>,
                      changed |-> r.changed]
           /\ accepted' = accepted \cup (r.st.classesPending \ classesPending)
    /\ UNCHANGED << initVars, scanVars >>

BuildPendingStyles(success) ==
    /\ processor # 0
    /\ LET st == buildPendingStyles(S, Interpret(success))
       IN  WithinBounds(st) /\ Commit(st)
    /\ ret' = NoRet
    /\ UNCHANGED << initVars, scanVars, accepted >>

ClearCache(clearAll) ==
    /\ processor # 0
    /\ Commit(clearCache(S, clearAll))
    /\ ret' = NoRet
    /\ accepted' = IF clearAll THEN {} ELSE accepted
    /\ UNCHANGED << initVars, scanVars >>

TransformCSS(css, id) ==
    /\ processor # 0
    /\ LET st == transformCSS(S, css, id)
       IN  WithinBounds(st) /\ Commit(st)
    /\ ret' = NoRet
    /\ UNCHANGED << initVars, scanVars, accepted >>

\* generateCSS(layer) from the point its awaits have resolved.
GenerateCSS(layer, success) ==
    /\ processor # 0
    /\ LET st == generateCSS(S, layer, Interpret(success))
       IN  WithinBounds(st) /\ Commit(st)
    /\ ret' = NoRet
    /\ UNCHANGED << initVars, scanVars, accepted >>

\* generateCSS(layer) called by caller c runs to its await ensureInit().
GenerateCall(c, layer) ==
    /\ calls[c] = NoCall
    /\ ensureInit(c)
    /\ calls' = [calls EXCEPT ![c] =
           [op |-> "generateCSS", pc |-> "init", arg |-> layer]]
    /\ ret' = NoRet
    /\ Commit(S)
    /\ UNCHANGED << searching, scanned, scanRuns, accepted >>

\* buildPendingStyles() and the layer reads that end generateCSS(),
\* lines 320-328.
GenerateTail(c) ==
    /\ \E success \in SUBSET classesPending :
          LET st == generateCSS(S, calls[c].arg, Interpret(success))
          IN  WithinBounds(st) /\ Commit(st)
    /\ calls' = [calls EXCEPT ![c] = NoCall]
    /\ ret' = NoRet
    /\ UNCHANGED << initVars, searching, scanned, scanRuns, accepted >>

\* The call fails with the rejection of the promise it awaited.
CallRejected(c) ==
    /\ calls' = [calls EXCEPT ![c] = NoCall]
    /\ ret' = NoRet
    /\ Commit(S)
    /\ UNCHANGED << initVars, searching, scanned, scanRuns, accepted >>

\* generateCSS() resumes after its ensureInit(): it enters scan(), which runs
\* to its own await ensureInit(), or goes on to its tail.
GenerateResume(c) ==
    /\ calls[c].op = "generateCSS"
    /\ calls[c].pc = "init"
    /\ \/ Rejected(c) /\ CallRejected(c)
       \/ /\ Resolved(c)
          /\ options.enableScan /\ options.scanOptions.runOnStartup
          /\ ensureInit(c)
          /\ calls' = [calls EXCEPT ![c].pc = "scanInit"]
          /\ ret' = NoRet
          /\ Commit(S)
          /\ UNCHANGED << searching, scanned, scanRuns, accepted >>
       \/ /\ Resolved(c)
          /\ ~(options.enableScan /\ options.scanOptions.runOnStartup)
          /\ GenerateTail(c)

\* scan() called by caller c runs to its await ensureInit().
ScanCall(c) ==
    /\ calls[c] = NoCall
    /\ ensureInit(c)
    /\ calls' = [calls EXCEPT ![c] =
           [op |-> "scan", pc |-> "scanInit", arg |-> undefined]]
    /\ ret' = NoRet
    /\ Commit(S)
    /\ UNCHANGED << searching, scanned, scanRuns, accepted >>

\* The mutant of scan's latch: a scan is started until one has finished.
StartsScan_UntilScanned == ~scanned

\* if (!_searching), line 92
StartsScan == searching.phase = "none"

\* scan() resumes after its ensureInit(): it starts the scan body, which
\* runs to its await getFiles(), unless _searching is set; it returns
\* _searching.
ScanResume(c) ==
    /\ calls[c].pc = "scanInit"
    /\ \/ Rejected(c) /\ CallRejected(c)
       \/ /\ Resolved(c)
          /\ IF StartsScan
             THEN /\ searching' = [phase |-> "globbing", arr |-> files.id]
                  /\ scanRuns' = scanRuns + 1
             ELSE UNCHANGED << searching, scanRuns >>
          /\ calls' = [calls EXCEPT ![c].pc = "scan"]
          /\ ret' = NoRet
          /\ Commit(S)
          /\ UNCHANGED << initVars, scanned, accepted >>

\* getFiles() resolves: files.push(...), on the array files named when the
\* call expression was entered; the reads of the files start.
ScanGlob ==
    /\ searching.phase = "globbing"
    /\ searching' = [searching EXCEPT !.phase = "reading"]
    /\ Commit([S EXCEPT !.files =
           IF @.id = searching.arr THEN [@ EXCEPT !.paths = @ \o Found]
           ELSE @])
    /\ ret' = NoRet
    /\ UNCHANGED << initVars, scanned, scanRuns, calls, accepted >>

\* The files are read: transformCSS() runs on the style source, extractFile()
\* on the other file up to its await; with no file, the scan is over.
ScanRead(css) ==
    /\ searching.phase = "reading"
    /\ IF files.paths = <<>>
       THEN /\ searching' = [searching EXCEPT !.phase = "done"]
            /\ scanned' = TRUE
            /\ Commit(S)
       ELSE /\ searching' = [searching EXCEPT !.phase = "extracting"]
            /\ UNCHANGED scanned
            /\ LET st == transformCSS(S, css, "a.css")
               IN  WithinBounds(st) /\ Commit(st)
    /\ ret' = NoRet
    /\ UNCHANGED << initVars, scanRuns, calls, accepted >>

\* extractFile() of the scanned file resumes and the scan body ends.
ScanExtract(code) ==
    /\ searching.phase = "extracting"
    /\ searching' = [searching EXCEPT !.phase = "done"]
    /\ scanned' = TRUE
    /\ LET r == extractFile(S, code)
       IN  /\ Commit(r.st)
           /\ accepted' = accepted \cup (r.st.classesPending \ classesPending)
    /\ ret' = NoRet
    /\ UNCHANGED << initVars, scanRuns, calls >>

\* The scan a call awaits is over: scan() returns, generateCSS() goes on to
\* its tail.
ScanAwaited(c) ==
    /\ calls[c].pc = "scan"
    /\ searching.phase = "done"
    /\ IF calls[c].op = "generateCSS"
       THEN GenerateTail(c)
       ELSE /\ calls' = [calls EXCEPT ![c] = NoCall]
            /\ ret' = NoRet
            /\ Commit(S)
            /\ UNCHANGED << initVars, searching, scanned, scanRuns, accepted >>

\* The plugin's CSS transform hook called by caller c with a style source
\* runs to its await utils.ensureInit() (index.ts, lines 143-144).
TransformCall(c, src) ==
    /\ calls[c] = NoCall
    /\ ensureInit(c)
    /\ calls' = [calls EXCEPT ![c] =
           [op |-> "transform", pc |-> "init", arg |-> src]]
    /\ ret' = NoRet
    /\ Commit(S)
    /\ UNCHANGED << searching, scanned, scanRuns, accepted >>

\* The hook resumes: utils.transformCSS(code, id) (index.ts, lines 145-152).
TransformResume(c) ==
    /\ calls[c].op = "transform"
    /\ calls[c].pc = "init"
    /\ \/ Rejected(c) /\ CallRejected(c)
       \/ /\ Resolved(c)
          /\ LET st == transformCSS(S, calls[c].arg[2], calls[c].arg[1])
             IN  WithinBounds(st) /\ Commit(st)
          /\ calls' = [calls EXCEPT ![c] = NoCall]
          /\ ret' = NoRet
          /\ UNCHANGED << initVars, searching, scanned, scanRuns, accepted >>

\* Time passes: Date.now() advances.
Tick ==
    /\ now < MaxClock
    /\ Commit([S EXCEPT !.now = @ + 1])
    /\ ret' = NoRet
    /\ UNCHANGED << initVars, scanVars, accepted >>

(***************************************************************************)
(* Specifications.  Each drives the one closure through a part of its      *)
(* interface; all start from the state createUtils() returns.              *)
(***************************************************************************)
\* (Re)configuration: init() and the resolution of the runs in flight.
Configure ==
    \/ InitCall
    \/ \E i \in 1..MaxInits, cfg \in Configs : InitResolve(i, cfg)

\* The token pipeline: extraction, compilation, generation, reset.
Next ==
    \/ Configure
    \/ \E code \in Codes : ExtractFile(code)
    \/ \E success \in SUBSET classesPending : BuildPendingStyles(success)
    \/ \E clearAll \in BOOLEAN : ClearCache(clearAll)
    \/ \E layer \in SupportedLayers \cup {undefined},
          success \in SUBSET classesPending : GenerateCSS(layer, success)

Spec == Init /\ [][Next]_vars

\* The class registry driven token list by token list.
NextClasses ==
    \/ Configure
    \/ \E classes \in ClassLists : AddClasses(classes)
    \/ \E success \in SUBSET classesPending : BuildPendingStyles(success)
    \/ \E clearAll \in BOOLEAN : ClearCache(clearAll)

SpecClasses == Init /\ [][NextClasses]_vars

\* The tag registry driven tag list by tag list.
NextTags ==
    \/ Configure
    \/ \E tags \in TagLists : AddTags(tags)
    \/ \E success \in SUBSET classesPending : BuildPendingStyles(success)
    \/ \E clearAll \in BOOLEAN : ClearCache(clearAll)

SpecTags == Init /\ [][NextTags]_vars

\* The layer store: style sources, compiled tokens, layer reads, reset.
NextLayers ==
    \/ Configure
    \/ \E src \in StyleSources : TransformCSS(src[2], src[1])
    \/ \E layer \in SupportedLayers \cup {undefined},
          success \in SUBSET classesPending : GenerateCSS(layer, success)
    \/ \E clearAll \in BOOLEAN : ClearCache(clearAll)

SpecLayers == Init /\ [][NextLayers]_vars

\* The initialization coordinator and the callers of ensureInit().
NextInit ==
    \/ Configure
    \/ \E c \in Callers : EnsureInit(c)

SpecInit == Init /\ [][NextInit]_vars

\* The initialization coordinator with runs that throw.
NextInitFail ==
    \/ Configure
    \/ \E i \in 1..MaxInits, cfg \in Configs, step \in InitSteps :
          InitFail(i, cfg, step)
    \/ \E c \in Callers : EnsureInit(c)

SpecInitFail == Init /\ [][NextInitFail]_vars

\* The calls of generateCSS() and scan() step by step, with the scan body.
ScanContents == {<<Child("layer-block", BlockUtilities), PlainRule>>}
ScanCodes == {Extracted(<<"btn", "p-4">>, <<"a">>)}
CallLayers == {undefined, "utilities"}

NextGenerate ==
    \/ Configure
    \/ \E c \in Callers, layer \in CallLayers : GenerateCall(c, layer)
    \/ \E c \in Callers : GenerateResume(c)
    \/ \E c \in Callers : ScanCall(c)
    \/ \E c \in Callers : ScanResume(c)
    \/ ScanGlob
    \/ \E css \in ScanContents : ScanRead(css)
    \/ \E code \in ScanCodes : ScanExtract(code)
    \/ \E c \in Callers : ScanAwaited(c)

SpecGenerate == Init /\ [][NextGenerate]_vars

\* The style sources going through the plugin's transform hook, one call
\* at a time, and the layer reads.
NextTransform ==
    \/ Configure
    \/ \E src \in StyleSources : TransformCall(1, src)
    \/ TransformResume(1)
    \/ \E layer \in CallLayers,
          success \in SUBSET classesPending : GenerateCSS(layer, success)

SpecTransform == Init /\ [][NextTransform]_vars

\* The layer store as time passes: style sources, layer reads, the clock.
NextFrame ==
    \/ Configure
    \/ \E src \in StyleSources : TransformCSS(src[2], src[1])
    \/ \E layer \in CallLayers,
          success \in SUBSET classesPending : GenerateCSS(layer, success)
    \/ Tick

SpecFrame == Init /\ [][NextFrame]_vars

(***************************************************************************)
(* Vocabulary of the properties.                                           *)
(***************************************************************************)
Count(seq, x) == Cardinality({k \in 1..Len(seq) : seq[k] = x})

IsPrefix(a, b) == Len(a) <= Len(b) /\ SubSeq(b, 1, Len(a)) = a

Cached(name) == layers[name].cssCache # <<>>

\* The rules of the text cached for a layer.
RulesOf(meta) == meta.cssCache[1].rules

ClassStyles(tokens) == StylesInOrder({StyleOfClass(c) : c \in tokens})

\* Some run was started by init() (and not by ensureInit()).
ExplicitInit == \E i \in 1..Len(inits) : inits[i].by = "init"

(***************************************************************************)
(* C1: in every state reachable by addClasses, buildPendingStyles and      *)
(* clearCache in either mode (safelist injection included), no class token *)
(* is both in classesGenerated and in classesPending.                      *)
(***************************************************************************)
C1_ClassesDisjoint == classesGenerated \cap classesPending = {}

\* Tokens were compiled and others queued since.
C1_Witness ==
    /\ classesGenerated # {}
    /\ classesPending # {}
    /\ MapGet(layerStylesMap, GeneratedClasses) # <<>>

(***************************************************************************)
(* C2: tagsAvailable, tagsPending and tagsGenerated are pairwise disjoint  *)
(* (the first half of the partition the claim states; a tag that addTags   *)
(* moved to Pending is not put back into Available by a later              *)
(* clearCache(false)).  The code breaks this half already, whatever the    *)
(* tag universe of the second half is taken to be.                         *)
(***************************************************************************)
C2_TagPartition ==
    /\ tagsAvailable \cap tagsPending = {}
    /\ tagsAvailable \cap tagsGenerated = {}
    /\ tagsPending \cap tagsGenerated = {}

(***************************************************************************)
(* C3: a cached layer text is the text a fresh build from the current      *)
(* contribution store yields, and since a layer was last invalidated it    *)
(* has been recomputed once if it is cached and not at all otherwise.      *)
(***************************************************************************)
C3_CacheCoherence ==
    \A name \in SupportedLayers :
        /\ Cached(name) => layers[name].cssCache[1] = BuildCss(S, name)
        /\ rebuilt[name] = IF Cached(name) THEN 1 ELSE 0

\* A layer that updateLayers invalidated has been rebuilt from a non-empty
\* contribution.
C3_Witness ==
    \E name \in SupportedLayers :
        /\ Cached(name)
        /\ layers[name].timestamp # 0
        /\ RulesOf(layers[name]) # <<>>

\* What every updateLayers step leaves alone: it changes the store and clears
\* caches, and sets neither a token set nor a cache.
OnlyLayerStoreChanges ==
    /\ UNCHANGED << options, processor, classesGenerated, classesPending,
                    tagsGenerated, tagsPending, tagsAvailable, initVars >>
    /\ \A name \in SupportedLayers :
          layers'[name].cssCache \in {<<>>, layers[name].cssCache}

(***************************************************************************)
(* C4: a replace of a source key's contribution (transformCSS of a text    *)
(* with layer blocks B over an earlier contribution A) leaves exactly B    *)
(* under the key, invalidates every layer A or B touches, and the next     *)
(* buildLayerCss of each such layer holds each node of A or B as often as  *)
(* B and the other keys hold it, not as often as A and B together.         *)
(***************************************************************************)
C4_ReplaceSemantics ==
    [][OnlyLayerStoreChanges => \A src \in StyleSources :
          LET f == src[1]
              A == MapGet(layerStylesMap, f)
              B == LayerBlocks(src[2])
              touched == TypesOf(A) \cup TypesOf(B)
              others(node) == Count(FlatValues(layerStylesMap), node)
                                  - Count(A, node)
          IN  (B # <<>> /\ TransformCSS(src[2], f)) =>
                  /\ MapGet(layerStylesMap', f) = B
                  /\ \A name \in touched :
                        /\ layers'[name].cssCache = <<>>
                        /\ LET out == RulesOf(buildLayerCss(S', name).layers[name])
                           IN  \A node \in {A[k] : k \in 1..Len(A)}
                                            \cup {B[k] : k \in 1..Len(B)} :
                                   node.type = name =>
                                       Count(out, node)
                                           = Count(B, node) + others(node)
      ]_vars

\* a.css held blocks of the components layer, holds the base block alone
\* now, and the components layer has been rebuilt since.
C4_Witness ==
    /\ MapGet(layerStylesMap, "a.css") = <<BlockBase>>
    /\ layers["components"].timestamp # 0
    /\ Cached("components")
    /\ Cached("base")

(***************************************************************************)
(* C5: the appends under the synthetic keys accumulate: every              *)
(* buildPendingStyles extends the contribution of GeneratedClasses and of  *)
(* GeneratedPreflights by exactly the nodes it compiled, in call order; no *)
(* step removes or reorders a node stored under them; and the layer texts  *)
(* generateCSS builds hold every stored node of these keys.                *)
(***************************************************************************)
C5_AppendSemantics ==
    [][/\ \A key \in {GeneratedClasses, GeneratedPreflights} :
             IsPrefix(MapGet(layerStylesMap, key), MapGet(layerStylesMap', key))
       /\ \A success \in SUBSET classesPending :
             BuildPendingStyles(success) =>
                 /\ MapGet(layerStylesMap', GeneratedClasses)
                       = MapGet(layerStylesMap, GeneratedClasses)
                             \o ClassStyles(success)
                 /\ MapGet(layerStylesMap', GeneratedPreflights)
                       = MapGet(layerStylesMap, GeneratedPreflights)
                             \o (IF options.enablePreflight
                                 THEN Preflight(options.preflightOptions.includeAll,
                                               tagsPending)
                                 ELSE <<>>)
       /\ \A success \in SUBSET classesPending :
             GenerateCSS(undefined, success) =>
                 \A key \in {GeneratedClasses, GeneratedPreflights} :
                     LET stored == MapGet(layerStylesMap', key)
                     IN  \A k \in 1..Len(stored) :
                             Count(RulesOf(layers'[stored[k].type]), stored[k])
                                 >= Count(stored, stored[k])
      ]_vars

\* Two appends under GeneratedClasses (one compile emits its nodes in rank
\* order, "btn" before "p-4"), both in the layer texts.
C5_Witness ==
    /\ MapGet(layerStylesMap, GeneratedClasses)
          = <<StyleOfClass("p-4"), StyleOfClass("btn")>>
    /\ Cached("utilities")
    /\ Cached("components")
    /\ StyleOfClass("btn") \in
          {RulesOf(layers["components"])[k] :
              k \in 1..Len(RulesOf(layers["components"]))}

(***************************************************************************)
(* C6: a cached layer text holds nodes of its own layer only, and every    *)
(* node of that layer the store holds under any key, as often as stored.   *)
(***************************************************************************)
C6_LayerIsolation ==
    \A name \in SupportedLayers :
        Cached(name) =>
            LET rules == RulesOf(layers[name])
                all == FlatValues(layerStylesMap)
            IN  /\ \A k \in 1..Len(rules) : rules[k].type = name
                /\ \A k \in 1..Len(all) :
                      all[k].type = name =>
                          Count(rules, all[k]) = Count(all, all[k])
                /\ Len(rules)
                      = Cardinality({k \in 1..Len(all) : all[k].type = name})

\* Three source keys contribute, every layer is cached and none is empty.
C6_Witness ==
    /\ Len(layerStylesMap) >= 3
    /\ \A name \in SupportedLayers :
          Cached(name) /\ RulesOf(layers[name]) # <<>>
    /\ Len(FlatValues(layerStylesMap)) > Len(RulesOf(layers["base"]))

(***************************************************************************)
(* C7: ensureInit() starts an initialization only when none was ever       *)
(* started, so _init runs once for all its callers; a call made while an   *)
(* initialization is in flight and no instance is Ready returns the        *)
(* promise of that run and starts nothing; as long as init() has not been  *)
(* called, all calls resolve to the one instance of the one run; and once  *)
(* an instance is Ready, ensureInit() returns it and starts nothing.       *)
(***************************************************************************)
C7_SingleFlightInit ==
    /\ [](/\ \A i \in 1..Len(inits) : inits[i].by = "ensureInit" => i = 1
          /\ ~ExplicitInit =>
                /\ Len(inits) <= 1
                /\ \A c \in Callers :
                      ensured[c].kind # "none" =>
                          /\ Len(inits) = 1
                          /\ ensured[c].ref = 1
                          /\ ensured[c].kind = "promise"
                                \/ inits[1].status = "done")
    /\ [][\A c \in Callers :
             ensured'[c] # ensured[c] =>
                 IF processor # 0
                 THEN /\ ensured'[c] = [kind |-> "value", ref |-> processor]
                      /\ UNCHANGED << inits, promise_init >>
                 ELSE IF promise_init # 0
                 THEN /\ ensured'[c] = [kind |-> "promise",
                                        ref |-> promise_init]
                      /\ UNCHANGED << inits, promise_init >>
                 ELSE /\ inits = <<>>
                      /\ Len(inits') = 1
                      /\ promise_init' = 1
                      /\ ensured'[c] = [kind |-> "promise", ref |-> 1]
       ]_vars

\* Two callers await the one run ensureInit() started, and it has resolved.
C7_Witness ==
    /\ Len(inits) = 1
    /\ inits[1] = [status |-> "done", by |-> "ensureInit"]
    /\ \A c \in Callers : ensured[c] = [kind |-> "promise", ref |-> 1]
    /\ processor = 1

(***************************************************************************)
(* C8: the class step of buildPendingStyles.  When the compiler reports    *)
(* tokens as succeeded, exactly those join Generated, their nodes are      *)
(* appended under GeneratedClasses, no other pending token is in Generated *)
(* and Pending is empty afterwards; when it reports none (or nothing is    *)
(* pending), Pending, Generated, the GeneratedClasses contribution and the *)
(* layer caches are as before (but for the base layer when the tag step of *)
(* the same call appends preflight nodes).                                 *)
(***************************************************************************)
C8_ClassCompilation ==
    /\ [](LET st == buildPendingClasses(S, Interpret({}))
          IN  /\ st.layers = layers
              /\ st.layerStylesMap = layerStylesMap
              /\ st.classesPending = classesPending
              /\ st.classesGenerated = classesGenerated)
    /\ [][\A success \in SUBSET classesPending :
          BuildPendingStyles(success) =>
              IF success # {}
              THEN /\ classesGenerated' = classesGenerated \cup success
                   /\ (classesPending \ success) \cap classesGenerated' = {}
                   /\ classesPending' = {}
                   /\ MapGet(layerStylesMap', GeneratedClasses)
                         = MapGet(layerStylesMap, GeneratedClasses)
                               \o ClassStyles(success)
              ELSE /\ classesPending' = classesPending
                   /\ classesGenerated' = classesGenerated
                   /\ MapGet(layerStylesMap', GeneratedClasses)
                         = MapGet(layerStylesMap, GeneratedClasses)
                   /\ \A name \in SupportedLayers \ {"base"} :
                         layers'[name] = layers[name]
                   /\ MapGet(layerStylesMap', GeneratedPreflights)
                         = MapGet(layerStylesMap, GeneratedPreflights)
                      => layers' = layers
       ]_vars

\* A partial success: under configuration B the safelisted "p-4" is queued
\* by every reset and leaves Pending only when a compile succeeds, so with
\* Pending empty and "btn" alone Generated, "p-4" was pending and not among
\* the succeeded tokens.
C8_Witness ==
    /\ options.name = "B"
    /\ classesGenerated = {"btn"}
    /\ classesPending = {}

(***************************************************************************)
(* C9: clearCache(false), called directly or by an initialization, moves   *)
(* every Generated class and tag token into Pending, leaves both Generated *)
(* sets empty and every layer without cached CSS, so that the next         *)
(* buildLayerCss of each layer recomputes.                                 *)
(***************************************************************************)
C9_ClearCacheRequeues ==
    [][(ClearCache(FALSE) \/ \E i \in 1..MaxInits, cfg \in Configs :
                                 InitResolve(i, cfg)) =>
          /\ classesGenerated \subseteq classesPending'
          /\ tagsGenerated \subseteq tagsPending'
          /\ classesGenerated' = {}
          /\ tagsGenerated' = {}
          /\ \A name \in SupportedLayers :
                /\ layers'[name].cssCache = <<>>
                /\ NeedsBuild(S', name)
      ]_vars

\* After a reset: tokens whose nodes are in the store are queued again,
\* nothing is Generated and no layer is cached or stamped.
C9_Witness ==
    /\ classesGenerated = {} /\ tagsGenerated = {}
    /\ \E c \in classesPending :
          Count(MapGet(layerStylesMap, GeneratedClasses), StyleOfClass(c)) > 0
    /\ "a" \in tagsPending
    /\ Count(MapGet(layerStylesMap, GeneratedPreflights), StyleOfTag("a")) > 0
    /\ layers = EmptyLayers

(***************************************************************************)
(* C10: addClasses returns true iff it inserted a token into Pending; it   *)
(* returns true for a one-token list whose token is new, not empty and not *)
(* blocklisted; it never touches Generated nor removes from Pending; and a *)
(* call repeating the arguments of the call just before it returns false   *)
(* and leaves Pending and Generated as they are.                           *)
(***************************************************************************)
C10_AddClassesIdempotent ==
    [][ret'.op = "addClasses" =>
          /\ ret'.changed <=> classesPending' # classesPending
          /\ classesPending \subseteq classesPending'
          /\ classesGenerated' = classesGenerated
          /\ \A t \in ClassTokens :
                (/\ ret'.args = <<t>>
                 /\ t \notin classesPending \cup classesGenerated
                 /\ t \notin options.blocklist)
                    => ret'.changed /\ t \in classesPending'
          /\ (ret.op = "addClasses" /\ ret.args = ret'.args) =>
                /\ ~ret'.changed
                /\ classesPending' = classesPending
      ]_vars

\* addClasses(["p-4"]) has just returned false with "p-4" pending.
C10_Witness ==
    /\ ret = [op |-> "addClasses", args |-> <<"p-4">>, changed |-> FALSE]
    /\ "p-4" \in classesPending


\* How far the scan body has come.
PhaseRank(phase) ==
    CASE phase = "none" -> 0
      [] phase = "globbing" -> 1
      [] phase = "reading" -> 2
      [] phase = "extracting" -> 3
      [] phase = "done" -> 4

(***************************************************************************)
(* C11: over every interleaving of scan(), generateCSS() (with and without *)
(* the scan on startup) and init(), the scan body is started at most once, *)
(* and only while _searching is unset; _searching is never unset again;    *)
(* the body moves forward through discovery, reading and extraction once;  *)
(* and a scan() call made while the scan is in flight or over starts       *)
(* nothing and awaits that one scan.                                       *)
(***************************************************************************)
C11_SingleFlightScan ==
    /\ [](/\ scanRuns <= 1
          /\ scanRuns = 0 <=> searching.phase = "none"
          /\ scanned <=> searching.phase = "done")
    /\ [][/\ scanRuns' # scanRuns =>
                /\ searching.phase = "none"
                /\ searching'.phase = "globbing"
          /\ PhaseRank(searching'.phase) >= PhaseRank(searching.phase)
          /\ PhaseRank(searching'.phase) <= PhaseRank(searching.phase) + 2
          /\ searching.phase = "done" =>
                /\ searching' = searching
                /\ files'.paths = <<>> \/ files' = files
          /\ \A c \in Callers :
                (/\ calls[c].pc = "scanInit"
                 /\ calls'[c].pc = "scan"
                 /\ searching.phase # "none") =>
                    UNCHANGED << searching, scanRuns, scanned, files,
                                 classesPending, layerStylesMap >>
       ]_vars

\* The scan is over, after an init() call, and both callers await it: one in
\* scan(), one in generateCSS().
C11_Witness ==
    /\ searching.phase = "done"
    /\ scanRuns = 1
    /\ ExplicitInit
    /\ calls[1] = [op |-> "scan", pc |-> "scan", arg |-> undefined]
    /\ calls[2].op = "generateCSS"
    /\ calls[2].pc = "scan"


(***************************************************************************)
(* C12: when every initialization so far has failed (at resolveOptions, at *)
(* the Processor constructor or in the onInitialized hook), the            *)
(* coordinator is Uninitialized: no processor is set and ensureInit() has  *)
(* handed out no instance; the callers of one run observe the one outcome  *)
(* of that run; and ensureInit() starts no initialization once one has     *)
(* been started, failed or not.                                            *)
(***************************************************************************)
C12_InitFailure ==
    /\ []((\A i \in 1..Len(inits) : inits[i].status # "done") =>
             /\ processor = 0
             /\ \A c \in Callers : ensured[c].kind # "value")
    /\ [][\A c \in Callers :
             (ensured'[c] # ensured[c] /\ promise_init # 0) =>
                 UNCHANGED << inits, promise_init >>
       ]_vars


(***************************************************************************)
(* C13: in every state reachable by addClasses, buildPendingStyles,        *)
(* clearCache in either mode and init() with a changed configuration, no   *)
(* token of the current blocklist is in classesPending.                    *)
(***************************************************************************)
C13_BlocklistExclusion == classesPending \cap options.blocklist = {}


(***************************************************************************)
(* C14: when a generateCSS() call returns, the initialization it awaited   *)
(* has completed and a processor is set; it has awaited the finished scan  *)
(* if the scan on startup was enabled when it resumed, and skipped it only *)
(* if not; buildPendingStyles has run before the reads, so every class     *)
(* token it compiled is in the returned text of its layer; and the text of *)
(* every layer it read is the one a fresh build from the store yields.     *)
(***************************************************************************)
C14_GenerateOrder ==
    [][\A c \in Callers :
          (/\ calls[c].op = "generateCSS"
           /\ calls'[c] = NoCall
           /\ ~Rejected(c)) =>
              /\ processor # 0
              /\ Resolved(c)
              /\ calls[c].pc \in {"init", "scan"}
              /\ calls[c].pc = "scan" => scanned /\ searching.phase = "done"
              /\ calls[c].pc = "init" =>
                    ~(options.enableScan /\ options.scanOptions.runOnStartup)
              /\ classesGenerated \subseteq classesGenerated'
              /\ classesGenerated' \subseteq classesGenerated \cup classesPending
              /\ LET read == IF calls[c].arg = undefined
                             THEN SupportedLayers ELSE {calls[c].arg}
                     compiled == classesGenerated' \ classesGenerated
                 IN  \A name \in read :
                        /\ layers'[name].cssCache = <<BuildCss(S', name)>>
                        /\ \A t \in compiled :
                              StyleOfClass(t).type = name =>
                                  Count(RulesOf(layers'[name]),
                                        StyleOfClass(t)) >= 1
      ]_vars

\* A generateCSS() call has returned after the scan: "btn", which only the
\* scan extracts, is compiled and in the text returned for its layer.
C14_Witness ==
    /\ scanned
    /\ \E c \in Callers : calls[c] = NoCall
    /\ "btn" \in classesGenerated
    /\ \A name \in SupportedLayers : Cached(name)
    /\ Count(RulesOf(layers["components"]), StyleOfClass("btn")) >= 1


(***************************************************************************)
(* C15: after clearCache(false), called directly or by an initialization,  *)
(* every class token addClasses inserted since the last full reset is in   *)
(* classesPending, whatever calls of addClasses and buildPendingStyles     *)
(* (partial successes included) came before.                               *)
(***************************************************************************)
C15_ReconfigKeepsTokens ==
    [][(\/ ClearCache(FALSE)
        \/ \E i \in 1..MaxInits, cfg \in Configs : InitResolve(i, cfg))
          => accepted \subseteq classesPending'
      ]_vars


(***************************************************************************)
(* C16: an initialization that completes publishes its instance and its    *)
(* options and runs clearCache(false) on the registry, whether or not a    *)
(* later init() has superseded it: the Ready instance is the one of the    *)
(* run that completed last, which need not be the run started last.        *)
(***************************************************************************)
C16_StaleInitPublishes ==
    [][\A i \in 1..Len(inits) :
          (inits[i].status = "resolving" /\ inits'[i].status = "done") =>
              /\ processor' = i
              /\ options' \in Configs
              /\ \A cfg \in Configs :
                    InitResolve(i, cfg) => options' = cfg
              /\ classesGenerated' = {}
              /\ tagsGenerated' = {}
              /\ classesGenerated \subseteq classesPending'
              /\ layers' = EmptyLayers
              /\ UNCHANGED promise_init
      ]_vars

\* The run started last completed first and the run it superseded has
\* published after it: the Ready instance and options are the stale run's,
\* with a token in Pending that the stale run's blocklist names.
C16_Witness ==
    /\ Len(inits) = 2
    /\ inits[1].status = "done"
    /\ inits[2].status = "done"
    /\ promise_init = 2
    /\ processor = 1
    /\ options = ConfigB
    /\ "btn" \in classesPending


(***************************************************************************)
(* C17: over addClasses, buildPendingStyles, init() and clearCache(false), *)
(* the contributions stored under the GeneratedClasses key and under the   *)
(* GeneratedPreflights key hold the nodes of a token at most once: nodes   *)
(* compiled before a reconfiguration are not in the store next to the      *)
(* recompiled ones.                                                        *)
(***************************************************************************)
C17_NoDuplicateOutput ==
    \A key \in {GeneratedClasses, GeneratedPreflights} :
        LET stored == MapGet(layerStylesMap, key)
        IN  \A k \in 1..Len(stored) : Count(stored, stored[k]) = 1


\* hasPending, lines 412-414
hasPending(st) == st.tagsPending # {} \/ st.classesPending # {}

(***************************************************************************)
(* C18: under every configuration, when buildPendingStyles() returns,      *)
(* tagsPending is empty and every tag that was pending is in               *)
(* tagsGenerated, so that hasPending can then be true only because of      *)
(* class tokens.                                                           *)
(***************************************************************************)
C18_PendingTagsDrained ==
    [][(\E success \in SUBSET classesPending : BuildPendingStyles(success))
          => /\ tagsPending' = {}
             /\ tagsPending \subseteq tagsGenerated'
             /\ hasPending(S') => classesPending' # {}
      ]_vars


(***************************************************************************)
(* C19: with CSS transformation enabled, after transformCSS(css, id) the   *)
(* contribution stored under id is exactly the layer blocks of css, also   *)
(* when css has none; the layers that blocks of an earlier version of id   *)
(* touched are then invalidated and no text built afterwards holds them.   *)
(***************************************************************************)
C19_TracksLatestContent ==
    [][\A c \in Callers :
          (/\ calls[c].op = "transform"
           /\ calls'[c] = NoCall
           /\ ~Rejected(c)
           /\ options.transformCSS) =>
              LET id == calls[c].arg[1]
                  css == calls[c].arg[2]
              IN  /\ MapGet(layerStylesMap', id) = LayerBlocks(css)
                  /\ \A name \in TypesOf(MapGet(layerStylesMap, id)) :
                        layers'[name].cssCache = <<>>
      ]_vars


\* The keys and node lists updateLayers is tried on in every reachable state.
FrameKeys == {"a.css", "b.css", GeneratedClasses, GeneratedPreflights}

FrameStyles ==
    SeqsUpTo({BlockBase, StyleOfClass("btn")}, MaxTokens)

\* st1 differs from st0 as a call updateLayers(styles, key, replace) allows.
Frame(st0, st1, styles, key, replace) ==
    LET old == MapGet(st0.layerStylesMap, key)
        inval == TypesOf(styles) \cup (IF replace THEN TypesOf(old) ELSE {})
    IN  /\ MapGet(st1.layerStylesMap, key)
              = IF replace THEN styles ELSE old \o styles
        /\ \A k \in 1..Len(st0.layerStylesMap) :
              st0.layerStylesMap[k].key # key =>
                  st1.layerStylesMap[k] = st0.layerStylesMap[k]
        /\ Len(st1.layerStylesMap)
              = Len(st0.layerStylesMap)
                    + (IF MapHas(st0.layerStylesMap, key) THEN 0 ELSE 1)
        /\ \A name \in SupportedLayers :
              st1.layers[name] =
                  IF name \in inval
                  THEN [cssCache |-> <<>>, timestamp |-> st0.now]
                  ELSE st0.layers[name]
        /\ st1.classesGenerated = st0.classesGenerated
        /\ st1.classesPending = st0.classesPending
        /\ st1.tagsGenerated = st0.tagsGenerated
        /\ st1.tagsPending = st0.tagsPending
        /\ st1.tagsAvailable = st0.tagsAvailable
        /\ st1.options = st0.options
        /\ st1.processor = st0.processor

(***************************************************************************)
(* C20: a call updateLayers(nodes, key, replace), made in any reachable    *)
(* state with any key, node list and mode, changes only the contribution   *)
(* stored under key and the metadata of the layers of nodes and, when      *)
(* replace is true, of key's previous contribution: those lose their       *)
(* cached text and get the current timestamp; every other layer keeps its  *)
(* cached text and timestamp, every other key its contribution, and        *)
(* the token sets are untouched.  The replace-mode call a transformCSS()   *)
(* step makes changes the state in just that way.                          *)
(***************************************************************************)
C20_UpdateLayersFrame ==
    /\ [](\A key \in FrameKeys, styles \in FrameStyles, replace \in BOOLEAN :
             Frame(S, updateLayers(S, styles, key, replace),
                   styles, key, replace))
    /\ [][\A src \in StyleSources :
             (TransformCSS(src[2], src[1]) /\ LayerBlocks(src[2]) # <<>>) =>
                 Frame(S, S', LayerBlocks(src[2]), src[1], TRUE)
       ]_vars

\* After the clock advanced, a replace under "a.css" invalidated the
\* utilities layer while the base layer, fed by "b.css", kept its cached text
\* and its older timestamp.
C20_Witness ==
    /\ layers["utilities"] = [cssCache |-> <<>>, timestamp |-> 2]
    /\ Cached("base")
    /\ layers["base"].timestamp = 1
    /\ MapGet(layerStylesMap, "a.css") # <<>>
    /\ MapGet(layerStylesMap, "b.css") # <<>>

=============================================================================
